---- MODULE Spec2Model ----
(***************************************************************************)
(* A model of the molecule protobuf decoding core: the codec.Buffer cursor *)
(* with its primitive decoders (src/codec/decode.go) and the two field     *)
(* iterators MessageEach and PackedRepeatedEach (molecule.go).             *)
(*                                                                         *)
(* Byte sequences are TLA+ sequences of integers 0..255; Go offset i is    *)
(* element i+1.  A uint64 is a sequence of 64 bits, least significant      *)
(* first, so that shifts, ors and the truncation to 64 bits are computed   *)
(* as the code computes them.  Go's int is taken to be 64 bits wide.       *)
(***************************************************************************)
EXTENDS Integers, Sequences, FiniteSets, TLC

(***************************************************************************)
(* Bounds of the model.                                                    *)
(***************************************************************************)
\* longest well-formed message, in fields, that Init encodes
MaxFields == 2
\* most well-formed fields in front of a malformed tail
MaxPrefix == 1
\* most scalar fields between two group tags of a generated group
MaxItems == 1
\* deepest nesting of groups inside the generated outer group
MaxDepth == 1
\* longest arbitrary byte sequence over RawAlphabet
MaxRawLen == 3
\* longest run of continuation bytes Init generates
MaxRun == 11

(***************************************************************************)
(* Go evaluates an expression once and names its value.  With(v, Op) is    *)
(* Op applied to the value of v, computed once: the model's form of        *)
(* "r := f(...)" followed by code that uses r several times.               *)
(***************************************************************************)
With(v, Op(_)) == CHOOSE r \in {Op(c) : c \in {v}} : TRUE

With2(v, w, Op(_, _)) == CHOOSE r \in {Op(c, d) : c \in {v}, d \in {w}} : TRUE

(***************************************************************************)
(* uint64 arithmetic on bit vectors.                                       *)
(***************************************************************************)
Zero64 == [i \in 1..64 |-> 0]

\* uint64(n) of a small non-negative integer (a byte, a length)
U64(n) ==
    With(n, LAMBDA m :
        [i \in 1..64 |-> IF i <= 31 THEN (m \div (2 ^ (i - 1))) % 2 ELSE 0])

\* x << s, truncated to 64 bits
Shl64(x, s) ==
    With2(x, s, LAMBDA a, k : [i \in 1..64 |-> IF i - k >= 1 THEN a[i - k] ELSE 0])

\* x >> s
Shr64(x, s) ==
    With2(x, s, LAMBDA a, k : [i \in 1..64 |-> IF i + k <= 64 THEN a[i + k] ELSE 0])

\* x | y
Or64(x, y) ==
    With2(x, y, LAMBDA a, b : [i \in 1..64 |-> IF a[i] = 1 \/ b[i] = 1 THEN 1 ELSE 0])

\* bits i .. i+n-1 of x (1-based) as an integer, n <= 31
RECURSIVE BitsFrom(_, _, _)
BitsFrom(x, i, n) == IF n = 0 THEN 0 ELSE x[i] + 2 * BitsFrom(x, i + 1, n - 1)

\* the low n bits of x as an integer, n <= 31
LowBits(x, n) == With(x, LAMBDA a : BitsFrom(a, 1, n))

\* x > y, comparing from the most significant bit down
RECURSIVE Gt64From(_, _, _)
Gt64From(x, y, i) ==
    IF i = 0 THEN FALSE
    ELSE IF x[i] # y[i] THEN x[i] > y[i]
    ELSE Gt64From(x, y, i - 1)

Gt64(x, y) == \E a \in {x}, b \in {y} : Gt64From(a, b, 64)

\* x fits in n bits
FitsIn(x, n) == \E a \in {x} : \A i \in (n + 1)..64 : a[i] = 0

(***************************************************************************)
(* Errors.  An error value is a sequence of messages, outermost first;     *)
(* fmt.Errorf("...: %v", err) prepends its message to err.                 *)
(***************************************************************************)
nil == <<>>

io_EOF == <<"EOF">>

io_ErrUnexpectedEOF == <<"unexpected EOF">>

ErrOverflow == <<"proto: integer overflow">>

ErrBadWireType == <<"proto: bad wiretype">>

ErrTagOutOfRange == <<"tag number out of range">>

ErrBadByteLength == <<"proto: bad byte length">>

Errorf(msg, err) == <<msg>> \o err

(***************************************************************************)
(* Wire types.                                                             *)
(***************************************************************************)
WireVarint == 0

WireFixed64 == 1

WireBytes == 2

WireStartGroup == 3

WireEndGroup == 4

WireFixed32 == 5

MaxInt32 == 2147483647

(***************************************************************************)
(* Buffer.DecodeVarint.  Every decoder takes the bytes and the index and   *)
(* returns the results, the new index and top, an exclusive upper bound of *)
(* the offsets of cb.buf it read.                                          *)
(***************************************************************************)
Max(a, b) == With2(a, b, LAMBDA m, n : IF m >= n THEN m ELSE n)

\* DecodeVarint whose loop stops one group early ("shift < 63")
RECURSIVE DecodeVarintLoopShort(_, _, _, _, _)
DecodeVarintLoopShort(bs, index, i, shift, x) ==
    IF ~(shift < 63)
    THEN [x |-> x, err |-> ErrOverflow, index |-> index, top |-> i]
    ELSE IF i >= Len(bs)
    THEN [x |-> x, err |-> io_ErrUnexpectedEOF, index |-> index, top |-> i]
    ELSE With2(bs[i + 1], Or64(x, Shl64(U64(bs[i + 1] % 128), shift)), LAMBDA b, x2 :
             IF b < 128
             THEN [x |-> x2, err |-> nil, index |-> i + 1, top |-> i + 1]
             ELSE DecodeVarintLoopShort(bs, index, i + 1, shift + 7, x2))

\* one pass of the for loop: i and x so far, b the byte read, x2 the new x
RECURSIVE DecodeVarintLoop(_, _, _, _, _)
DecodeVarintLoop(bs, index, i, shift, x) ==
    IF ~(shift < 64)
    THEN [x |-> x, err |-> ErrOverflow, index |-> index, top |-> i]
    ELSE IF i >= Len(bs)
    THEN [x |-> x, err |-> io_ErrUnexpectedEOF, index |-> index, top |-> i]
    ELSE With2(bs[i + 1], Or64(x, Shl64(U64(bs[i + 1] % 128), shift)), LAMBDA b, x2 :
             IF b < 128
             THEN [x |-> x2, err |-> nil, index |-> i + 1, top |-> i + 1]
             ELSE DecodeVarintLoop(bs, index, i + 1, shift + 7, x2))

DecodeVarint(bs, index) == DecodeVarintLoop(bs, index, index, 0, Zero64)

(***************************************************************************)
(* Buffer.DecodeTagAndWireType.                                            *)
(***************************************************************************)
DecodeTagAndWireType(bs, index) ==
    With(DecodeVarint(bs, index), LAMBDA r :
        LET wireType == LowBits(r.x, 3)
            v == Shr64(r.x, 3)
        IN  IF r.err # nil
            THEN [tag |-> 0, wireType |-> 0, err |-> r.err,
                  index |-> r.index, top |-> r.top]
            ELSE IF Gt64(v, U64(MaxInt32))
            THEN [tag |-> 0, wireType |-> wireType, err |-> ErrTagOutOfRange,
                  index |-> r.index, top |-> r.top]
            ELSE [tag |-> LowBits(v, 31), wireType |-> wireType, err |-> nil,
                  index |-> r.index, top |-> r.top])

(***************************************************************************)
(* Buffer.DecodeFixed64 and Buffer.DecodeFixed32.  ByteAt is cb.buf[i]; an *)
(* offset outside the slice makes Go panic, which the model records by     *)
(* reading 0 and by top exceeding the length.                              *)
(***************************************************************************)
ByteAt(bs, i) == With(i, LAMBDA j : IF 0 <= j /\ j < Len(bs) THEN bs[j + 1] ELSE 0)

\* DecodeFixed64 without the upper bound check
DecodeFixed64Unchecked(bs, index) ==
    With(index + 8, LAMBDA i :
        LET x0 == U64(ByteAt(bs, i - 8))
            x1 == Or64(x0, Shl64(U64(ByteAt(bs, i - 7)), 8))
            x2 == Or64(x1, Shl64(U64(ByteAt(bs, i - 6)), 16))
            x3 == Or64(x2, Shl64(U64(ByteAt(bs, i - 5)), 24))
            x4 == Or64(x3, Shl64(U64(ByteAt(bs, i - 4)), 32))
            x5 == Or64(x4, Shl64(U64(ByteAt(bs, i - 3)), 40))
            x6 == Or64(x5, Shl64(U64(ByteAt(bs, i - 2)), 48))
            x7 == Or64(x6, Shl64(U64(ByteAt(bs, i - 1)), 56))
        IN  IF i < 0
            THEN [x |-> Zero64, err |-> io_ErrUnexpectedEOF, index |-> i - 8, top |-> i - 8]
            ELSE [x |-> x7, err |-> nil, index |-> i, top |-> i])

DecodeFixed64(bs, index) ==
    With(index + 8, LAMBDA i :
        LET x0 == U64(ByteAt(bs, i - 8))
            x1 == Or64(x0, Shl64(U64(ByteAt(bs, i - 7)), 8))
            x2 == Or64(x1, Shl64(U64(ByteAt(bs, i - 6)), 16))
            x3 == Or64(x2, Shl64(U64(ByteAt(bs, i - 5)), 24))
            x4 == Or64(x3, Shl64(U64(ByteAt(bs, i - 4)), 32))
            x5 == Or64(x4, Shl64(U64(ByteAt(bs, i - 3)), 40))
            x6 == Or64(x5, Shl64(U64(ByteAt(bs, i - 2)), 48))
            x7 == Or64(x6, Shl64(U64(ByteAt(bs, i - 1)), 56))
        IN  IF i < 0 \/ i > Len(bs)
            THEN [x |-> Zero64, err |-> io_ErrUnexpectedEOF, index |-> i - 8, top |-> i - 8]
            ELSE [x |-> x7, err |-> nil, index |-> i, top |-> i])

\* DecodeFixed32 with the shifts of its two high bytes exchanged
DecodeFixed32Swapped(bs, index) ==
    With(index + 4, LAMBDA i :
        LET x0 == U64(ByteAt(bs, i - 4))
            x1 == Or64(x0, Shl64(U64(ByteAt(bs, i - 3)), 8))
            x2 == Or64(x1, Shl64(U64(ByteAt(bs, i - 2)), 24))
            x3 == Or64(x2, Shl64(U64(ByteAt(bs, i - 1)), 16))
        IN  IF i < 0 \/ i > Len(bs)
            THEN [x |-> Zero64, err |-> io_ErrUnexpectedEOF, index |-> i - 4, top |-> i - 4]
            ELSE [x |-> x3, err |-> nil, index |-> i, top |-> i])

\* DecodeFixed32 that returns its value without "cb.index = i"
DecodeFixed32NoAdvance(bs, index) ==
    With(index + 4, LAMBDA i :
        LET x0 == U64(ByteAt(bs, i - 4))
            x1 == Or64(x0, Shl64(U64(ByteAt(bs, i - 3)), 8))
            x2 == Or64(x1, Shl64(U64(ByteAt(bs, i - 2)), 16))
            x3 == Or64(x2, Shl64(U64(ByteAt(bs, i - 1)), 24))
        IN  IF i < 0 \/ i > Len(bs)
            THEN [x |-> Zero64, err |-> io_ErrUnexpectedEOF, index |-> i - 4, top |-> i - 4]
            ELSE [x |-> x3, err |-> nil, index |-> i - 4, top |-> i])

DecodeFixed32(bs, index) ==
    With(index + 4, LAMBDA i :
        LET x0 == U64(ByteAt(bs, i - 4))
            x1 == Or64(x0, Shl64(U64(ByteAt(bs, i - 3)), 8))
            x2 == Or64(x1, Shl64(U64(ByteAt(bs, i - 2)), 16))
            x3 == Or64(x2, Shl64(U64(ByteAt(bs, i - 1)), 24))
        IN  IF i < 0 \/ i > Len(bs)
            THEN [x |-> Zero64, err |-> io_ErrUnexpectedEOF, index |-> i - 4, top |-> i - 4]
            ELSE [x |-> x3, err |-> nil, index |-> i, top |-> i])

(***************************************************************************)
(* Buffer.DecodeRawBytes.  nb := int(n) reinterprets the 64 bits as a      *)
(* signed integer, negative when bit 63 is set.  end := cb.index + nb is   *)
(* computed for nb < 2^30; a larger non-negative nb makes end either wrap  *)
(* below cb.index or exceed len(cb.buf), which is below 2^30 here.         *)
(***************************************************************************)
IsNegative(n) == n[64] = 1

\* the bounds check with "end >= len(cb.buf)"
EndOutOfRangeOffByOne(index, n, len) ==
    IF FitsIn(n, 30)
    THEN \E end \in {index + LowBits(n, 30)} : end < index \/ end >= len
    ELSE TRUE

EndOutOfRange(index, n, len) ==
    IF FitsIn(n, 30)
    THEN \E end \in {index + LowBits(n, 30)} : end < index \/ end > len
    ELSE TRUE

\* make([]byte, n)
Make(n) == [i \in 1..n |-> 0]

\* copy(dst, src): the first min(len(dst), len(src)) elements of src over dst
Copy(dst, src) ==
    With2(dst, src, LAMBDA d, s :
        [i \in 1..Len(d) |-> IF i <= Len(s) THEN s[i] ELSE d[i]])

\* s[lo:hi] and s[lo:]
Slice(s, lo, hi) == SubSeq(s, lo + 1, hi)

SliceFrom(s, lo) == SubSeq(s, lo + 1, Len(s))

DecodeRawBytes(bs, index, alloc) ==
    With(DecodeVarint(bs, index), LAMBDA r :
        IF r.err # nil
        THEN [buf |-> <<>>, err |-> r.err, index |-> r.index, top |-> r.top]
        ELSE IF IsNegative(r.x)
        THEN [buf |-> <<>>, err |-> ErrBadByteLength, index |-> r.index, top |-> r.top]
        ELSE IF EndOutOfRange(r.index, r.x, Len(bs))
        THEN [buf |-> <<>>, err |-> io_ErrUnexpectedEOF, index |-> r.index, top |-> r.top]
        ELSE With(LowBits(r.x, 30), LAMBDA nb :
                 LET end == r.index + nb
                 IN  IF ~alloc
                     THEN [buf |-> Slice(bs, r.index, end), err |-> nil,
                           index |-> end, top |-> end]
                     ELSE [buf |-> Copy(Make(nb), SliceFrom(bs, r.index)), err |-> nil,
                           index |-> end, top |-> end]))

(***************************************************************************)
(* Buffer.Skip and Buffer.EOF.                                             *)
(***************************************************************************)
Skip(bs, index, count) ==
    With(count, LAMBDA n :
        IF ~IsNegative(n) /\ ~EndOutOfRange(index, n, Len(bs))
        THEN [err |-> nil, index |-> index + LowBits(n, 30)]
        ELSE [err |-> io_ErrUnexpectedEOF, index |-> index])

EOF(bs, index) == index = Len(bs)

(***************************************************************************)
(* Buffer.findGroupEnd, Buffer.SkipGroup and Buffer.ReadGroup.  The        *)
(* deferred cb.index = start makes findGroupEnd leave the index where it   *)
(* found it, so it returns no index.                                       *)
(***************************************************************************)
\* the loop that finds the last byte of a varint: i, or the error
RECURSIVE SkipVarintLoop(_, _, _)
SkipVarintLoop(bs, i, limit) ==
    IF i >= limit THEN [err |-> ErrOverflow, i |-> i, top |-> i]
    ELSE IF i >= Len(bs) THEN [err |-> io_ErrUnexpectedEOF, i |-> i, top |-> i]
    ELSE IF bs[i + 1] < 128 THEN [err |-> nil, i |-> i, top |-> i + 1]
    ELSE SkipVarintLoop(bs, i + 1, limit)

RECURSIVE findGroupEndLoop(_, _, _)
RECURSIVE SkipGroup(_, _)

Failed(err, top) == [groupEnd |-> 0, dataEnd |-> 0, err |-> err, top |-> top]

\* one pass of the for loop with cb.index = index; top is the bound so far
findGroupEndLoop(bs, index, top) ==
    With(DecodeTagAndWireType(bs, index), LAMBDA t :
    With(Max(top, t.top), LAMBDA top1 :
    LET fieldStart == index
    IN  IF t.err # nil THEN Failed(t.err, top1)
        ELSE IF t.wireType = WireFixed32
        THEN With(Skip(bs, t.index, U64(4)), LAMBDA k :
                 IF k.err # nil THEN Failed(k.err, top1)
                 ELSE findGroupEndLoop(bs, k.index, top1))
        ELSE IF t.wireType = WireFixed64
        THEN With(Skip(bs, t.index, U64(8)), LAMBDA k :
                 IF k.err # nil THEN Failed(k.err, top1)
                 ELSE findGroupEndLoop(bs, k.index, top1))
        ELSE IF t.wireType = WireVarint
        THEN With(SkipVarintLoop(bs, t.index, t.index + 10), LAMBDA k :
                 IF k.err # nil THEN Failed(k.err, Max(top1, k.top))
                 ELSE findGroupEndLoop(bs, k.i + 1, Max(top1, k.top)))
        ELSE IF t.wireType = WireBytes
        THEN With(DecodeVarint(bs, t.index), LAMBDA l :
                 IF l.err # nil THEN Failed(l.err, Max(top1, l.top))
                 ELSE With(Skip(bs, l.index, l.x), LAMBDA k :
                          IF k.err # nil THEN Failed(k.err, Max(top1, l.top))
                          ELSE findGroupEndLoop(bs, k.index, Max(top1, l.top))))
        ELSE IF t.wireType = WireStartGroup
        THEN With(SkipGroup(bs, t.index), LAMBDA k :
                 IF k.err # nil THEN Failed(k.err, Max(top1, k.top))
                 ELSE findGroupEndLoop(bs, k.index, Max(top1, k.top)))
        ELSE IF t.wireType = WireEndGroup
        THEN [groupEnd |-> t.index, dataEnd |-> fieldStart, err |-> nil, top |-> top1]
        ELSE Failed(ErrBadWireType, top1)))

findGroupEnd(bs, index) == findGroupEndLoop(bs, index, index)

\* SkipGroup that stops where the EndGroup tag begins
SkipGroupBeforeTag(bs, index) ==
    With(findGroupEnd(bs, index), LAMBDA g :
        IF g.err # nil
        THEN [err |-> g.err, index |-> index, top |-> g.top]
        ELSE [err |-> nil, index |-> g.dataEnd, top |-> g.top])

SkipGroup(bs, index) ==
    With(findGroupEnd(bs, index), LAMBDA g :
        IF g.err # nil
        THEN [err |-> g.err, index |-> index, top |-> g.top]
        ELSE [err |-> nil, index |-> g.groupEnd, top |-> g.top])

ReadGroup(bs, index, alloc) ==
    With(findGroupEnd(bs, index), LAMBDA g :
        IF g.err # nil
        THEN [results |-> <<>>, err |-> g.err, index |-> index, top |-> g.top]
        ELSE IF ~alloc
        THEN [results |-> Slice(bs, index, g.dataEnd), err |-> nil,
              index |-> g.groupEnd, top |-> g.top]
        ELSE [results |-> Copy(Make(g.dataEnd - index), SliceFrom(bs, index)),
              err |-> nil, index |-> g.groupEnd, top |-> g.top])

(***************************************************************************)
(* molecule.Value and readValueFromBuffer.  The Value is written in place: *)
(* a decode replaces WireType and the one payload field of its wire type   *)
(* and leaves the other payload as the previous field left it.             *)
(***************************************************************************)
EmptyValue == [WireType |-> 0, Number |-> Zero64, Bytes |-> <<>>]

\* the outcome of one case of the switch: r is what the decoder returned
Decoded(v, r, msg, field, payload) ==
    IF r.err # nil
    THEN [value |-> v, err |-> Errorf(msg, r.err), index |-> r.index, top |-> r.top]
    ELSE [value |-> [v EXCEPT ![field] = payload], err |-> nil,
          index |-> r.index, top |-> r.top]

readValueFromBuffer(wireType, bs, index, value) ==
    With(wireType, LAMBDA wt :
    With([value EXCEPT !.WireType = wt], LAMBDA v :
        IF wt = WireVarint
        THEN With(DecodeVarint(bs, index), LAMBDA r :
                 Decoded(v, r, "MessageEach: error decoding varint", "Number", r.x))
        ELSE IF wt = WireFixed32
        THEN With(DecodeFixed32(bs, index), LAMBDA r :
                 Decoded(v, r, "MessageEach: error decoding fixed32", "Number", r.x))
        ELSE IF wt = WireFixed64
        THEN With(DecodeFixed64(bs, index), LAMBDA r :
                 Decoded(v, r, "MessageEach: error decoding fixed64", "Number", r.x))
        ELSE IF wt = WireBytes
        THEN With(DecodeRawBytes(bs, index, FALSE), LAMBDA r :
                 Decoded(v, r, "MessageEach: error decoding raw bytes", "Bytes", r.buf))
        ELSE IF wt \in {WireStartGroup, WireEndGroup}
        THEN [value |-> v,
              err |-> <<"MessageEach: encountered group wire type. Groups not supported">>,
              index |-> index, top |-> index]
        ELSE [value |-> v, err |-> <<"MessageEach: unknown wireType">>,
              index |-> index, top |-> index]))

(***************************************************************************)
(* The wire type PackedRepeatedEach reads for a field type; -1 stands for  *)
(* the default branch of its switch.                                       *)
(***************************************************************************)
\* the field types the model calls PackedRepeatedEach with: two or one of
\* each case of the switch, and one of its default
PackedFieldTypes == {"INT32", "SINT64", "DOUBLE", "FLOAT", "STRING", "GROUP"}

PackedWireType(fieldType) ==
    IF fieldType \in {"INT32", "INT64", "UINT32", "UINT64", "SINT32", "SINT64",
                      "BOOL", "ENUM"}
    THEN WireVarint
    ELSE IF fieldType \in {"FIXED64", "SFIXED64", "DOUBLE"} THEN WireFixed64
    ELSE IF fieldType \in {"FIXED32", "SFIXED32", "FLOAT"} THEN WireFixed32
    ELSE IF fieldType \in {"STRING", "MESSAGE", "BYTES"} THEN WireBytes
    ELSE -1

(***************************************************************************)
(* What a callback may answer: (shouldContinue, err).                      *)
(***************************************************************************)
CbErr == <<"callback error">>

FnResults == [cont : BOOLEAN, err : {nil, CbErr}]

(***************************************************************************)
(* The inputs: the byte sequences a Buffer is constructed over, each with  *)
(* a record src of how it was built, which the properties refer to.        *)
(***************************************************************************)
AllOnes64 == [i \in 1..64 |-> 1]

\* 2^k
Pow64(k) == [i \in 1..64 |-> IF i = k + 1 THEN 1 ELSE 0]

\* the canonical varint encoding of x
RECURSIVE EncodeVarint(_)
EncodeVarint(x) ==
    With(x, LAMBDA a :
        IF FitsIn(a, 7) THEN <<LowBits(a, 7)>>
        ELSE <<LowBits(a, 7) + 128>> \o EncodeVarint(Shr64(a, 7)))

\* x in n little-endian bytes
EncodeFixed(x, n) == With(x, LAMBDA a : [k \in 1..n |-> BitsFrom(a, 8 * (k - 1) + 1, 8)])

EncodeTag(fieldNum, wireType) ==
    EncodeVarint(Or64(Shl64(U64(fieldNum), 3), U64(wireType)))

Field(fieldNum, wireType, number, bytes) ==
    [fieldNum |-> fieldNum, wireType |-> wireType, number |-> number, bytes |-> bytes]

EncodeField(f) ==
    EncodeTag(f.fieldNum, f.wireType) \o
    (IF f.wireType = WireVarint THEN EncodeVarint(f.number)
     ELSE IF f.wireType = WireFixed32 THEN EncodeFixed(f.number, 4)
     ELSE IF f.wireType = WireFixed64 THEN EncodeFixed(f.number, 8)
     ELSE EncodeVarint(U64(Len(f.bytes))) \o f.bytes)

RECURSIVE Flatten(_)
Flatten(ss) == With(ss, LAMBDA s : IF s = <<>> THEN <<>> ELSE Head(s) \o Flatten(Tail(s)))

EncodeFields(fs) == Flatten([i \in 1..Len(fs) |-> EncodeField(fs[i])])

SeqsUpTo(S, n) == UNION {[1..k -> S] : k \in 0..n}

Rep(b, n) == [i \in 1..n |-> b]

Prefixes(bs) == {SubSeq(bs, 1, k) : k \in 0..Len(bs)}

\* well-formed fields of the four scalar wire types
FieldSet ==
    {Field(1, WireVarint, U64(300), <<>>),
     Field(16, WireFixed32, U64(16909060), <<>>),
     Field(3, WireFixed64, Or64(Pow64(63), U64(258)), <<>>),
     Field(MaxInt32, WireBytes, Zero64, <<8, 1>>)}

PrefixFieldSet == {Field(1, WireVarint, U64(300), <<>>)}

\* what may follow well-formed fields in a malformed message
MalformedTails ==
    UNION {Prefixes(EncodeField(f)) \ {<<>>, EncodeField(f)} : f \in FieldSet}
    \cup {<<128>>, Rep(128, 10), <<128, 128, 128, 128, 64, 0>>,
          <<11>>, <<12, 8, 1>>, <<14>>, <<15, 0>>, <<10, 2, 0>>, <<10, 128>>,
          <<10>> \o Rep(128, 9) \o <<1>>}

Src(kind, fields, s, dataEnd, groupEnd, n) ==
    [kind |-> kind, fields |-> fields, s |-> s, dataEnd |-> dataEnd,
     groupEnd |-> groupEnd, n |-> n]

FieldInputs ==
    {[buf |-> EncodeFields(fs), src |-> Src("fields", fs, 0, 0, 0, Zero64)] :
        fs \in SeqsUpTo(FieldSet, MaxFields)}

MalformedInputs ==
    {[buf |-> EncodeFields(fs) \o t, src |-> Src("malformed", <<>>, 0, 0, 0, Zero64)] :
        fs \in SeqsUpTo(PrefixFieldSet, MaxPrefix), t \in MalformedTails}

\* runs of one scalar field; the payloads hold bytes that read as group tags
Runs(field) == {Flatten(Rep(field, k)) : k \in 0..MaxItems}

\* the fields of a group, between its StartGroup and its EndGroup tag: runs
\* of fixed width fields, or a nested group of field 1 with a varint field
\* before it and a length-delimited field after it
RECURSIVE GroupData(_)
GroupData(d) ==
    Runs(<<13, 12, 11, 12, 12>>) \cup Runs(<<9, 12, 12, 12, 12, 12, 12, 12, 11>>)
    \cup (IF d = 0 THEN {}
          ELSE {<<8, 140, 1, 11>> \o g \o <<12, 10, 2, 12, 11>> :
                    g \in GroupData(d - 1)})

\* the StartGroup tag of field 16, the group's fields, its EndGroup tag and
\* what follows the group
GroupInputs ==
    {[buf |-> <<131, 1>> \o g \o <<132, 1>> \o e,
      src |-> Src("group", <<>>, 2, 2 + Len(g), 4 + Len(g), Zero64)] :
        g \in GroupData(MaxDepth), e \in {<<>>, <<12>>}}

\* the values whose canonical encoding Init decodes
VarintSamples ==
    {Zero64, U64(1), U64(127), U64(128), U64(300), U64(16383), U64(16384),
     U64(MaxInt32), Pow64(31), Pow64(32), Pow64(34), Pow64(56),
     Shr64(AllOnes64, 1), Pow64(63), AllOnes64}

VarintInputs ==
    {[buf |-> EncodeVarint(n) \o e, src |-> Src("varint", <<>>, 0, 0, 0, n)] :
        n \in VarintSamples, e \in {<<>>, <<1>>}}

\* runs of continuation bytes, with and without a terminating byte
RunInputs ==
    {[buf |-> r, src |-> Src("run", <<>>, 0, 0, 0, Zero64)] :
        r \in UNION {{Rep(128, k), Rep(128, k) \o <<1>>, Rep(255, k) \o <<127>>} :
                        k \in 0..MaxRun}}

RawAlphabet == {0, 12, 128}

RawInputs ==
    {[buf |-> bs, src |-> Src("raw", <<>>, 0, 0, 0, Zero64)] :
        bs \in SeqsUpTo(RawAlphabet, MaxRawLen)}

Inputs ==
    FieldInputs \cup MalformedInputs \cup GroupInputs \cup VarintInputs
    \cup RunInputs \cup RawInputs

(***************************************************************************)
(* The state: one Buffer (buf, index) and the call in progress on it.      *)
(*   pc       "idle", or the iterator whose loop is running                *)
(*   value    the iterator's reusable Value                                *)
(*   wireType PackedRepeatedEach's wire type                               *)
(*   calls    the callback invocations of the current or last iterator     *)
(*            call, each with the index before (at) and after its field    *)
(*   ret      what the last completed call returned and where it started   *)
(*   top      an exclusive upper bound of the offsets the last step read   *)
(*   src      how buf was built                                            *)
(***************************************************************************)
VARIABLES buf, index, pc, value, wireType, calls, ret, top, src

vars == <<buf, index, pc, value, wireType, calls, ret, top, src>>

Ret(op, start, err, x, bytes, tag, wt) ==
    [op |-> op, start |-> start, err |-> err, x |-> x, bytes |-> bytes,
     tag |-> tag, wireType |-> wt]

InitOver(inputs) ==
    /\ \E in \in inputs : buf = in.buf /\ src = in.src
    /\ index = 0
    /\ pc = "idle"
    /\ value = EmptyValue
    /\ wireType = 0
    /\ calls = <<>>
    /\ ret = Ret("NewBuffer", 0, nil, Zero64, <<>>, 0, 0)
    /\ top = 0

\* a primitive call: runs to completion and leaves its results in ret
Primitive(op, r, x, bytes, tag, wt) ==
    /\ index' = r.index
    /\ top' = r.top
    /\ ret' = Ret(op, index, r.err, x, bytes, tag, wt)
    /\ calls' = <<>>
    /\ UNCHANGED <<buf, pc, value, wireType, src>>

CallDecodeVarint ==
    /\ pc = "idle"
    /\ \E r \in {DecodeVarint(buf, index)} : Primitive("DecodeVarint", r, r.x, <<>>, 0, 0)

CallDecodeTagAndWireType ==
    /\ pc = "idle"
    /\ \E r \in {DecodeTagAndWireType(buf, index)} : Primitive("DecodeTagAndWireType", r, Zero64, <<>>, r.tag, r.wireType)

CallDecodeFixed64 ==
    /\ pc = "idle"
    /\ \E r \in {DecodeFixed64(buf, index)} : Primitive("DecodeFixed64", r, r.x, <<>>, 0, 0)

CallDecodeFixed32 ==
    /\ pc = "idle"
    /\ \E r \in {DecodeFixed32(buf, index)} : Primitive("DecodeFixed32", r, r.x, <<>>, 0, 0)

CallDecodeRawBytes ==
    /\ pc = "idle"
    /\ \E alloc \in BOOLEAN :
           \E r \in {DecodeRawBytes(buf, index, alloc)} :
               Primitive("DecodeRawBytes", r, Zero64, r.buf, 0, 0)

CallReadGroup ==
    /\ pc = "idle"
    /\ \E alloc \in BOOLEAN :
           \E r \in {ReadGroup(buf, index, alloc)} :
               Primitive("ReadGroup", r, Zero64, r.results, 0, 0)

CallSkipGroup ==
    /\ pc = "idle"
    /\ \E r \in {SkipGroup(buf, index)} : Primitive("SkipGroup", r, Zero64, <<>>, 0, 0)

(***************************************************************************)
(* MessageEach: the call, then one step per pass of its loop.  A pass that *)
(* reaches the callback takes the callback's answer from FnResults.        *)
(***************************************************************************)
\* an iterator returns: its locals value and wireType are gone
Return(op, err) ==
    /\ pc' = "idle"
    /\ ret' = Ret(op, ret.start, err, Zero64, <<>>, 0, 0)
    /\ value' = EmptyValue
    /\ wireType' = 0

\* "err != nil || !shouldContinue" of each iterator
\* the same tests without "err != nil"
MessageEachStopsOnlyOnRequest(res) == ~res.cont

PackedRepeatedEachStopsOnlyOnRequest(res) == ~res.cont

MessageEachStops(res) == res.err # nil \/ ~res.cont

PackedRepeatedEachStops(res) == res.err # nil \/ ~res.cont

Invocation(fieldNum, v, at, after, res) ==
    [fieldNum |-> fieldNum, value |-> v, at |-> at, after |-> after,
     cont |-> res.cont, err |-> res.err]

CallMessageEach ==
    /\ pc = "idle"
    /\ pc' = "MessageEach"
    /\ value' = EmptyValue
    /\ calls' = <<>>
    /\ ret' = Ret("MessageEach:running", index, nil, Zero64, <<>>, 0, 0)
    /\ top' = index
    /\ UNCHANGED <<buf, index, wireType, src>>

MessageEachLoop ==
    /\ pc = "MessageEach"
    /\ UNCHANGED <<buf, src>>
    /\ IF EOF(buf, index)
       THEN /\ Return("MessageEach", nil)
            /\ UNCHANGED <<index, calls, top>>
       ELSE \E t \in {DecodeTagAndWireType(buf, index)} :
            IF t.err = io_EOF
            THEN /\ Return("MessageEach", nil)
                 /\ index' = t.index
                 /\ top' = t.top
                 /\ UNCHANGED calls
            ELSE \E r \in {readValueFromBuffer(t.wireType, buf, t.index, value)} :
                 IF r.err # nil
                 THEN /\ Return("MessageEach",
                                Errorf("MessageEach: error reading value from buffer", r.err))
                      /\ index' = r.index
                      /\ top' = Max(t.top, r.top)
                      /\ UNCHANGED calls
                 ELSE \E res \in FnResults :
                      /\ index' = r.index
                      /\ top' = Max(t.top, r.top)
                      /\ calls' = Append(calls, Invocation(t.tag, r.value, index, r.index, res))
                      /\ IF MessageEachStops(res)
                         THEN Return("MessageEach", res.err)
                         ELSE /\ value' = r.value
                              /\ UNCHANGED <<pc, ret, wireType>>

(***************************************************************************)
(* PackedRepeatedEach: the call, which maps the field type, then one step  *)
(* per pass of its loop.                                                   *)
(***************************************************************************)
CallPackedRepeatedEach ==
    \E fieldType \in PackedFieldTypes :
        /\ pc = "idle"
        /\ calls' = <<>>
        /\ top' = index
        /\ UNCHANGED <<buf, index, src>>
        /\ IF PackedWireType(fieldType) = -1
           THEN /\ ret' = Ret("PackedRepeatedEach", index,
                              <<"PackedRepeatedEach: unknown field type">>,
                              Zero64, <<>>, 0, 0)
                /\ UNCHANGED <<pc, value, wireType>>
           ELSE /\ pc' = "PackedRepeatedEach"
                /\ wireType' = PackedWireType(fieldType)
                /\ value' = EmptyValue
                /\ ret' = Ret("PackedRepeatedEach:running", index, nil, Zero64, <<>>, 0, 0)

PackedRepeatedEachLoop ==
    /\ pc = "PackedRepeatedEach"
    /\ UNCHANGED <<buf, src>>
    /\ IF EOF(buf, index)
       THEN /\ Return("PackedRepeatedEach", nil)
            /\ UNCHANGED <<index, calls, top>>
       ELSE \E r \in {readValueFromBuffer(wireType, buf, index, value)} :
                IF r.err # nil
                THEN /\ Return("PackedRepeatedEach",
                               Errorf("PackedRepeatedEach: error reading value from buffer",
                                      r.err))
                     /\ index' = r.index
                     /\ top' = r.top
                     /\ UNCHANGED calls
                ELSE \E res \in FnResults :
                     /\ index' = r.index
                     /\ top' = r.top
                     /\ calls' = Append(calls, Invocation(0, r.value, index, r.index, res))
                     /\ IF PackedRepeatedEachStops(res)
                        THEN Return("PackedRepeatedEach", nil)
                        ELSE /\ value' = r.value
                             /\ UNCHANGED <<pc, ret, wireType>>

Next ==
    \/ CallDecodeVarint
    \/ CallDecodeTagAndWireType
    \/ CallDecodeFixed64
    \/ CallDecodeFixed32
    \/ CallDecodeRawBytes
    \/ CallReadGroup
    \/ CallSkipGroup
    \/ CallMessageEach
    \/ MessageEachLoop
    \/ CallPackedRepeatedEach
    \/ PackedRepeatedEachLoop

Init == InitOver(Inputs)

Spec == Init /\ [][Next]_vars

\* the same program over one family of inputs
InitFields == InitOver(FieldInputs \cup MalformedInputs)

SpecFields == InitFields /\ [][Next]_vars

InitGroup == InitOver(GroupInputs)

SpecGroup == InitGroup /\ [][Next]_vars

InitVarint == InitOver(VarintInputs \cup RunInputs)

SpecVarint == InitVarint /\ [][Next]_vars

(***************************************************************************)
(* Properties.                                                             *)
(***************************************************************************)
InMessageEach == ret.op \in {"MessageEach", "MessageEach:running"}

InPackedRepeatedEach == ret.op \in {"PackedRepeatedEach", "PackedRepeatedEach:running"}

Stopped(c) == c.err # nil \/ ~c.cont

\* every remaining byte from offset i on has its continuation bit set, and
\* there are fewer than 10 of them
TruncatedVarintAt(i) ==
    /\ Len(buf) - i < 10
    /\ \A j \in (i + 1)..Len(buf) : buf[j] >= 128

\* MessageEach has returned from a pass of its loop that began at index
\* without reaching the callback
ReturnedFromPassAt ==
    /\ pc = "idle"
    /\ ret.op = "MessageEach"
    /\ index < Len(buf)
    /\ calls = <<>> \/ ~Stopped(calls[Len(calls)])

\* C1: when MessageEach is not at the end and the tag's varint is cut off by
\* the end of the input, MessageEach returns no error.
C1_TruncatedTagEndsMessage ==
    (ReturnedFromPassAt /\ TruncatedVarintAt(index)) => ret.err = nil

\* C2: MessageEach invokes the callback only for a field whose tag decoded
\* without failure and whose wire type is Varint, Fixed64, Bytes or Fixed32.
C2_CallbackOnlyForDecodedField ==
    InMessageEach =>
        \A i \in 1..Len(calls) :
            LET t == DecodeTagAndWireType(buf, calls[i].at)
            IN  /\ t.err = nil
                /\ t.wireType \in {WireVarint, WireFixed64, WireBytes, WireFixed32}
                /\ calls[i].fieldNum = t.tag

\* C3: in MessageEach the first callback invocation that reports an error or
\* asks to stop is the last one; MessageEach has then returned the error the
\* callback reported and the cursor is where that field ended.
C3_MessageEachStopsAtFirstStop ==
    InMessageEach =>
        \A i \in 1..Len(calls) :
            Stopped(calls[i]) =>
                /\ i = Len(calls)
                /\ pc = "idle"
                /\ ret.op = "MessageEach"
                /\ ret.err = calls[i].err
                /\ index = calls[i].after

C3_Witness ==
    /\ pc = "idle"
    /\ ret.op = "MessageEach"
    /\ Len(calls) = 1
    /\ calls[1].cont
    /\ calls[1].err = CbErr
    /\ ret.err = CbErr
    /\ index < Len(buf)

\* the i-th callback invocation received the i-th encoded field
Received(c, f) ==
    /\ c.fieldNum = f.fieldNum
    /\ c.value.WireType = f.wireType
    /\ IF f.wireType = WireBytes
       THEN c.value.Bytes = f.bytes
       ELSE c.value.Number = f.number

\* C4: over the concatenation of N well-formed fields, with a callback that
\* always continues, MessageEach invokes the callback N times in encoded
\* order with each field's number, wire type and payload, and returns no
\* error with the cursor at the end.
C4_MessageEachVisitsEveryField ==
    (src.kind = "fields" /\ InMessageEach /\ ret.start = 0) =>
        /\ Len(calls) <= Len(src.fields)
        /\ \A i \in 1..Len(calls) : Received(calls[i], src.fields[i])
        /\ (pc = "idle" /\ \A i \in 1..Len(calls) : ~Stopped(calls[i])) =>
               /\ Len(calls) = Len(src.fields)
               /\ ret.err = nil
               /\ index = Len(buf)

C4_Witness ==
    /\ src.kind = "fields"
    /\ pc = "idle"
    /\ ret.op = "MessageEach"
    /\ ret.start = 0
    /\ Len(calls) = 2
    /\ \A i \in 1..2 : ~Stopped(calls[i])
    /\ calls[1].value.WireType = WireFixed32
    /\ calls[2].value.WireType = WireBytes
    /\ calls[2].value.Bytes = <<8, 1>>

\* the offsets k < 10 from s at which a byte with its top bit clear lies
Terminators(s) == {k \in 0..9 : s + k < Len(buf) /\ buf[s + k + 1] < 128}

Least(S) == CHOOSE k \in S : \A j \in S : k <= j

\* the low 7 bits of the bytes s .. s+k, byte g at bits 7g .. 7g+6, cut to 64 bits
SevenBitGroups(s, k) ==
    [j \in 1..64 |->
        LET g == (j - 1) \div 7
        IN  IF g <= k THEN ((buf[s + g + 1] % 128) \div (2 ^ ((j - 1) % 7))) % 2 ELSE 0]

\* C5: DecodeVarint succeeds when a byte with its top bit clear lies at an
\* offset k < 10, returns the 7-bit groups of bytes 0..k and advances by k+1,
\* so it inverts the canonical encoding; it fails with ErrOverflow after 10
\* continuation bytes and with io.ErrUnexpectedEOF when fewer than 10 bytes
\* remain and all continue, and a failure leaves the position unchanged.
C5_DecodeVarint ==
    ret.op = "DecodeVarint" =>
        LET s == ret.start
        IN  /\ IF Terminators(s) # {}
               THEN LET k == Least(Terminators(s))
                    IN  /\ ret.err = nil
                        /\ ret.x = SevenBitGroups(s, k)
                        /\ index = s + k + 1
               ELSE /\ ret.err = (IF Len(buf) - s >= 10 THEN ErrOverflow
                                  ELSE io_ErrUnexpectedEOF)
                    /\ index = s
            /\ (src.kind = "varint" /\ s = 0) =>
                   /\ ret.err = nil
                   /\ ret.x = src.n
                   /\ index = Len(EncodeVarint(src.n))

C5_Witness ==
    /\ ret.op = "DecodeVarint"
    /\ src.kind = "varint"
    /\ ret.start = 0
    /\ ret.err = nil
    /\ index = 10
    /\ ret.x = AllOnes64

\* the length prefix DecodeRawBytes decoded at the position it started from
Prefix == DecodeVarint(buf, ret.start)

\* the prefix decoded to a non-negative length that ends inside the bytes
LengthInBounds ==
    /\ Prefix.err = nil
    /\ FitsIn(Prefix.x, 30)
    /\ Prefix.index + LowBits(Prefix.x, 30) <= Len(buf)

ReturnsTheRun ==
    LengthInBounds =>
        /\ ret.err = nil
        /\ ret.bytes = SubSeq(buf, Prefix.index + 1, Prefix.index + LowBits(Prefix.x, 30))
        /\ index = Prefix.index + LowBits(Prefix.x, 30)

\* C6 as stated: DecodeRawBytes fails with BadLength whenever the prefix
\* decodes and the length is negative or ends out of bounds, and with
\* UnexpectedEndOfInput only when the prefix itself is truncated.
C6_BadLengthWhenOutOfBounds ==
    ret.op = "DecodeRawBytes" =>
        /\ (Prefix.err = nil /\ ~LengthInBounds) => ret.err = ErrBadByteLength
        /\ ret.err = io_ErrUnexpectedEOF => Prefix.err = io_ErrUnexpectedEOF
        /\ ReturnsTheRun

\* C6 amended: DecodeRawBytes fails with the bad-length error when the prefix
\* decodes to a negative length, with io.ErrUnexpectedEOF when the prefix is
\* truncated or decodes to a non-negative length that ends out of bounds,
\* and otherwise returns the run and moves to its end.
C6_UnexpectedEOFWhenOutOfBounds ==
    ret.op = "DecodeRawBytes" =>
        /\ (Prefix.err = nil /\ Prefix.x[64] = 1) => ret.err = ErrBadByteLength
        /\ (Prefix.err = nil /\ Prefix.x[64] = 0 /\ ~LengthInBounds) =>
               ret.err = io_ErrUnexpectedEOF
        /\ Prefix.err # nil => (ret.err = Prefix.err /\ index = ret.start)
        /\ ReturnsTheRun

C6_Witness ==
    /\ ret.op = "DecodeRawBytes"
    /\ Prefix.err = nil
    /\ Prefix.x[64] = 0
    /\ ~LengthInBounds
    /\ ret.err = io_ErrUnexpectedEOF

IsGroupCall == ret.op \in {"ReadGroup", "SkipGroup"}

\* C7: called just after the StartGroup tag of a well-formed group, however
\* deeply groups nest inside it, SkipGroup moves to just after the matching
\* EndGroup tag and ReadGroup also returns the bytes up to where that tag
\* begins; when the scan fails both leave the position where it was.
C7_GroupEnd ==
    IsGroupCall =>
        /\ (src.kind = "group" /\ ret.start = src.s) =>
               /\ ret.err = nil
               /\ index = src.groupEnd
               /\ ret.op = "ReadGroup" =>
                      ret.bytes = SubSeq(buf, src.s + 1, src.dataEnd)
        /\ ret.err # nil => index = ret.start

C7_Witness ==
    /\ src.kind = "group"
    /\ ret.op = "ReadGroup"
    /\ ret.start = src.s
    /\ ret.err = nil
    /\ ret.bytes = <<8, 140, 1, 11, 13, 12, 11, 12, 12, 12, 10, 2, 12, 11>>
    /\ index = Len(buf) - 1

\* C8: in PackedRepeatedEach the first callback invocation that reports an
\* error or asks to stop is the last one, and PackedRepeatedEach has then
\* returned no error, whatever the callback reported.
C8_PackedRepeatedEachDropsCallbackError ==
    InPackedRepeatedEach =>
        \A i \in 1..Len(calls) :
            Stopped(calls[i]) =>
                /\ i = Len(calls)
                /\ pc = "idle"
                /\ ret.op = "PackedRepeatedEach"
                /\ ret.err = nil
                /\ index = calls[i].after

C8_Witness ==
    /\ pc = "idle"
    /\ ret.op = "PackedRepeatedEach"
    /\ Len(calls) = 2
    /\ calls[2].err = CbErr
    /\ calls[2].cont
    /\ ret.err = nil
    /\ index < Len(buf)

\* C9: in every state 0 <= position <= length, no step has read an offset
\* at or beyond the length, and no step changes the bytes.
C9_PositionInBounds ==
    /\ [](0 <= index /\ index <= Len(buf) /\ top <= Len(buf))
    /\ [][buf' = buf]_vars

C9_Witness ==
    /\ ret.op = "DecodeFixed64"
    /\ ret.err = io_ErrUnexpectedEOF
    /\ Len(buf) - ret.start \in 1..7
    /\ index = ret.start

Iterating == pc \in {"MessageEach", "PackedRepeatedEach"}

\* C10: the iterators' loops terminate because the position, which never
\* exceeds the length, is their variant: a pass of either loop that does not
\* return strictly increases the position, no pass decreases it, and the
\* callback is invoked at most length(sequence) times.
C10_IteratorsTerminate ==
    /\ [][(Iterating /\ pc' = pc) => index' > index]_vars
    /\ [][Iterating => index' >= index]_vars
    /\ [](index <= Len(buf) /\ Len(calls) <= Len(buf))

C10_Witness ==
    /\ pc = "idle"
    /\ ret.op = "PackedRepeatedEach"
    /\ ret.err = nil
    /\ Len(calls) >= 1
    /\ calls[Len(calls)].value.WireType = WireBytes
    /\ calls[Len(calls)].value.Bytes = <<>>
    /\ calls[Len(calls)].after = calls[Len(calls)].at + 1
    /\ index = Len(buf)

====
